---- MODULE Spec2Model ----
(***************************************************************************)
(* Model of graphqlhelpers (src/args.go): the ArgLoader registry           *)
(* (loaderFuncs, gqlTypes), Register, SafeArgsConfig and                   *)
(* LoadArgs, together with the four built-in loader funcs.                 *)
(*                                                                         *)
(* Go values are modelled as records [kind, val] of strings; an error is a *)
(* sequence of strings (the pieces fmt.Errorf concatenates), <<>> is the   *)
(* nil error.  A call's outcome is [status, err] with status "ok",         *)
(* "error" (an error value was returned) or "panic" (the fault reached the *)
(* caller).                                                                *)
(***************************************************************************)
EXTENDS Integers, Sequences, FiniteSets, TLC

VARIABLES
    loaderFuncs,  \* ArgLoader.loaderFuncs: Go type -> the func wrapped for it
    gqlTypes,     \* ArgLoader.gqlTypes: Go type -> graphql type
    structType,   \* the struct type of the program's argument struct
    args,         \* p.Args of the resolver call
    dest,         \* the field values of the struct LoadArgs is handed
    last,         \* the most recent call: what was called, with what, its outcome
    call,         \* interleaved callers: each caller's call in progress
    records,      \* interleaved callers: the structs the callers load into
    concurrent    \* interleaved callers: the pairs of calls that overlapped

vars == <<loaderFuncs, gqlTypes, structType, args, dest, last, call, records, concurrent>>
seqVars == <<loaderFuncs, gqlTypes, structType, args, dest, last>>
concVars == <<call, records, concurrent>>

\* ------------------------------------------------------------------------
\* Bounds
\* ------------------------------------------------------------------------
\* Largest number of fields of a destination struct type.
MaxFields == 2

\* Number of concurrent callers in the interleaved specification.
MaxProcs == 2

\* ------------------------------------------------------------------------
\* Go values
\* ------------------------------------------------------------------------
NoTag == "<no tag>"
NoGqlType == "<nil>"
NilError == <<>>

Val(k, v) == [kind |-> k, val |-> v]
NilRaw == Val("nil", "<nil>")

\* The raw values a graphql.ResolveParams.Args map may hold.
RawValues == {Val("string", "Joe"), Val("int", "42"), NilRaw}

\* The zero value of a Go type.
Zero(t) ==
    CASE t = "string" -> Val("string", "")
      [] t = "int" -> Val("int", "0")
      [] t = "bool" -> Val("bool", "false")
      [] t = "float64" -> Val("float64", "0")

ArgKeys == {"name", "greeting"}

\* A Go map: a function on the set of keys present.
EmptyMap == [k \in {} |-> k]
Put(m, k, v) == [x \in (DOMAIN m) \cup {k} |-> IF x = k THEN v ELSE m[x]]

\* The Args maps the resolver is called with.
ArgMaps == UNION {[ks -> RawValues] : ks \in SUBSET ArgKeys}

Outcome(s, e) == [status |-> s, err |-> e]
OK == Outcome("ok", NilError)

\* ------------------------------------------------------------------------
\* Loader funcs
\* ------------------------------------------------------------------------
\* A value handed to Register: its reflect.Kind, its signature and what its
\* body does when called.
Func(n, k, nin, nout, o0, o1err, b) ==
    [name |-> n, kind |-> k, numIn |-> nin, numOut |-> nout, out0 |-> o0,
     out1IsError |-> o1err, body |-> b]

LoadBool == Func("LoadBool", "func", 1, 2, "bool", TRUE, "assert")
LoadString == Func("LoadString", "func", 1, 2, "string", TRUE, "assert")
LoadInt == Func("LoadInt", "func", 1, 2, "int", TRUE, "assert")
LoadFloat == Func("LoadFloat", "func", 1, 2, "float64", TRUE, "assert")

\* Caller-supplied values: a loader that panics, and values Register rejects.
PanicString == Func("PanicString", "func", 1, 2, "string", TRUE, "panic")
TwoArgs == Func("TwoArgs", "func", 2, 2, "int", TRUE, "assert")
OneResult == Func("OneResult", "func", 1, 1, "int", TRUE, "assert")
NoError == Func("NoError", "func", 1, 2, "int", FALSE, "assert")
NotAFunc == Func("NotAFunc", "string", 0, 0, "", FALSE, "none")

DefaultLoaders ==
    << <<LoadBool, "Boolean">>, <<LoadString, "String">>,
       <<LoadInt, "Int">>, <<LoadFloat, "Float">> >>

\* The (f, gqlType) pairs callers hand to Register.
RegisterInputs ==
    { <<LoadString, "String">>, <<LoadInt, "Int">>, <<PanicString, "ID">>,
      <<TwoArgs, "Int">>, <<OneResult, "Int">>, <<NoError, "Int">>,
      <<NotAFunc, "String">> }

\* callable.Call([]reflect.Value{reflect.ValueOf(i)}): [status, val, err] of
\* running f on raw value i.  reflect.ValueOf(nil) is the zero Value, which
\* Call refuses with a panic; the built-ins assert i's dynamic type.
Call(f, i) ==
    IF i = NilRaw
    THEN [status |-> "panic", val |-> NilRaw,
          err |-> <<"reflect: Call using zero Value argument">>]
    ELSE IF f.body = "panic"
    THEN [status |-> "panic", val |-> NilRaw, err |-> <<"boom">>]
    ELSE IF i.kind = f.out0
    THEN [status |-> "ok", val |-> i, err |-> NilError]
    ELSE [status |-> "error", val |-> Zero(f.out0),
          err |-> <<i.val, "is not a", f.out0>>]

\* The closure without its deferred recover: a fault of f reaches the caller.
wrappedNoRecover(f, i) == Call(f, i)

\* The closure Register stores for f: runs f, turns a panic into an error
\* "<fname> panicked: <p>" and a non-nil error into an error result.
wrapped(f, i) ==
    LET r == Call(f, i)
    IN  IF r.status = "panic"
        THEN [status |-> "error", val |-> NilRaw,
              err |-> <<f.name, "panicked:">> \o r.err]
        ELSE IF r.status = "error"
        THEN [status |-> "error", val |-> NilRaw, err |-> r.err]
        ELSE r

\* ------------------------------------------------------------------------
\* Register
\* ------------------------------------------------------------------------
Registry(lf, gt) == [loaderFuncs |-> lf, gqlTypes |-> gt]

\* Register without the alreadyRegistered check: a later registration
\* overwrites the earlier one.
RegisterOverwrite(reg, f, gqlType) ==
    IF f.kind # "func"
    THEN [reg |-> reg, out |-> Outcome("error", <<f.name, "is not a func">>)]
    ELSE IF f.numIn # 1
    THEN [reg |-> reg, out |-> Outcome("error", <<"loader func should accept 1 interface{} argument.", f.name>>)]
    ELSE IF f.numOut # 2
    THEN [reg |-> reg, out |-> Outcome("error", <<"loader func should return 2 arguments.", f.name>>)]
    ELSE IF ~f.out1IsError
    THEN [reg |-> reg, out |-> Outcome("error", <<"loader func's last return value should be error.", f.name>>)]
    ELSE [reg |-> Registry(Put(reg.loaderFuncs, f.out0, f), Put(reg.gqlTypes, f.out0, gqlType)),
          out |-> OK]

\* ArgLoader.Register(f, gqlType) on registry reg: the registry afterwards
\* and the call's outcome.
Register(reg, f, gqlType) ==
    IF f.kind # "func"
    THEN [reg |-> reg, out |-> Outcome("error", <<f.name, "is not a func">>)]
    ELSE IF f.numIn # 1
    THEN [reg |-> reg, out |-> Outcome("error", <<"loader func should accept 1 interface{} argument.", f.name>>)]
    ELSE IF f.numOut # 2
    THEN [reg |-> reg, out |-> Outcome("error", <<"loader func should return 2 arguments.", f.name>>)]
    ELSE IF ~f.out1IsError
    THEN [reg |-> reg, out |-> Outcome("error", <<"loader func's last return value should be error.", f.name>>)]
    ELSE IF f.out0 \in DOMAIN reg.loaderFuncs
    THEN [reg |-> reg, out |-> Outcome("error", <<"a loader func has already been registered for the", f.out0, "type.  cannot also register", f.name>>)]
    ELSE [reg |-> Registry(Put(reg.loaderFuncs, f.out0, f), Put(reg.gqlTypes, f.out0, gqlType)),
          out |-> OK]

\* Empty(): an ArgLoader with two empty maps.
Empty == Registry(EmptyMap, EmptyMap)

\* New(): Empty() with every DefaultLoaders entry registered in order; the
\* first failing registration is returned instead.
RECURSIVE NewFrom(_, _)
NewFrom(reg, k) ==
    IF k > Len(DefaultLoaders) THEN [reg |-> reg, out |-> OK]
    ELSE LET r == Register(reg, DefaultLoaders[k][1], DefaultLoaders[k][2])
         IN  IF r.out.status # "ok" THEN r ELSE NewFrom(r.reg, k + 1)

New == NewFrom(Empty, 1)

\* ------------------------------------------------------------------------
\* Struct types and their field tags
\* ------------------------------------------------------------------------
\* A struct field: its Go name and type and the values of its arg, required
\* and desc tags (NoTag when the tag is not written).
Field(n, t, a, r, d) == [Name |-> n, Type |-> t, arg |-> a, required |-> r, desc |-> d]

\* The fields of helloArgs in the demonstration program, then fields with a
\* false and an unparseable required tag, an untagged field whose name is an
\* Args key, and an unexported tagged one.
FieldDecls ==
    { Field("Name", "string", "name", "true", "Your name"),
      Field("Greeting", "string", "greeting", NoTag, "How to say hello"),
      Field("Count", "int", "greeting", "false", NoTag),
      Field("Flag", "string", "name", "maybe", NoTag),
      Field("greeting", "string", NoTag, "true", "not an argument"),
      Field("secret", "string", "name", NoTag, "unexported") }

helloArgs ==
    << Field("Name", "string", "name", "true", "Your name"),
       Field("Greeting", "string", "greeting", NoTag, "How to say hello") >>

\* Go exports the identifiers that start with an upper-case letter.
IsExported(n) == n \in {"Name", "Greeting", "Count", "Flag"}

\* The struct types: up to MaxFields fields with distinct names.
StructTypes ==
    UNION { {T \in [1..n -> FieldDecls] :
                \A i, j \in 1..n : i # j => T[i].Name # T[j].Name} : n \in 0..MaxFields }

ZeroStruct(T) == [i \in 1..Len(T) |-> Zero(T[i].Type)]

\* field.Tag.Lookup(argTag) that falls back to the field's name.
argLookupByName(field) ==
    [ok |-> TRUE, v |-> IF field.arg # NoTag THEN field.arg ELSE field.Name]

\* field.Tag.Lookup(argTag)
argLookup(field) == [ok |-> field.arg # NoTag, v |-> field.arg]

\* field.Tag.Get(descTag): the empty string when the tag is not written.
descGet(field) == IF field.desc = NoTag THEN "" ELSE field.desc

\* strconv.ParseBool
ParseBool(s) ==
    IF s \in {"1", "t", "T", "TRUE", "true", "True"} THEN [ok |-> TRUE, v |-> TRUE]
    ELSE IF s \in {"0", "f", "F", "FALSE", "false", "False"} THEN [ok |-> TRUE, v |-> FALSE]
    ELSE [ok |-> FALSE, v |-> FALSE]

\* ------------------------------------------------------------------------
\* SafeArgsConfig / ArgsConfig
\* ------------------------------------------------------------------------
\* e.gqlTypes[field.Type]: the zero graphql.Output when the type has no entry.
gqlTypeOf(reg, t) == IF t \in DOMAIN reg.gqlTypes THEN reg.gqlTypes[t] ELSE NoGqlType

ArgumentConfig(t, d) == [Type |-> t, Description |-> d]

\* Lines 91-100: the loop body of SafeArgsConfig for field k, out being the
\* map so far.
ConfigField(reg, T, k, out) ==
    LET field == T[k]
        a == argLookup(field)
    IN  IF ~a.ok THEN out
        ELSE Put(out, a.v, ArgumentConfig(gqlTypeOf(reg, field.Type), descGet(field)))

\* Lines 90-101: the loop of SafeArgsConfig from field k on.
RECURSIVE ConfigLoop(_, _, _, _)
ConfigLoop(reg, T, k, out) ==
    IF k > Len(T) THEN out
    ELSE ConfigLoop(reg, T, k + 1, ConfigField(reg, T, k, out))

\* The kinds of value callers pass where a struct or a pointer to one is
\* expected: a struct, a pointer to one, a nil pointer to one, a value and a
\* pointer that are neither, and the nil interface.
ConfigInputs == {"struct", "ptrStruct", "int", "ptrInt", "nil"}
LoadInputs == {"ptrStruct", "nilPtrStruct", "struct", "nil"}

\* SafeArgsConfig that keys each entry by the field's Go name.
SafeArgsConfigByFieldName(reg, kind, T) ==
    IF kind \in {"struct", "ptrStruct", "nilPtrStruct"}
    THEN [schema |-> [n \in {T[k].Name : k \in {j \in 1..Len(T) : T[j].arg # NoTag}} |->
                        ArgumentConfig(NoGqlType, "")],
          out |-> OK]
    ELSE [schema |-> EmptyMap, out |-> Outcome("error", <<kind, "is not a struct">>)]

\* ArgLoader.SafeArgsConfig(i): reflect.TypeOf(nil) is the nil Type, whose
\* Kind() dereferences a nil pointer.
SafeArgsConfig(reg, kind, T) ==
    IF kind = "nil"
    THEN [schema |-> EmptyMap, out |-> Outcome("panic", <<"nil pointer dereference">>)]
    ELSE IF kind \notin {"struct", "ptrStruct", "nilPtrStruct"}
    THEN [schema |-> EmptyMap, out |-> Outcome("error", <<kind, "is not a struct">>)]
    ELSE [schema |-> ConfigLoop(reg, T, 1, EmptyMap), out |-> OK]

\* ------------------------------------------------------------------------
\* LoadArgs
\* ------------------------------------------------------------------------
\* One pass of the loop body: the field values afterwards, whether LoadArgs
\* returns here (ret) and with what outcome.
Step(vals, ret, out) == [vals |-> vals, ret |-> ret, out |-> out]

\* Lines 185-199: the key of field is not in the map.
MissingKey(field, argKey, vals) ==
    IF field.required = NoTag THEN Step(vals, FALSE, OK)
    ELSE LET b == ParseBool(field.required)
         IN  IF ~b.ok
             THEN Step(vals, TRUE,
                       Outcome("error", <<field.required, "is not a valid 'required' tag value">>))
             ELSE IF b.v
             THEN Step(vals, TRUE, Outcome("error", <<argKey, "is required">>))
             ELSE Step(vals, FALSE, OK)

\* Lines 201-210: the key is in the map with raw value raw.  settable: c is
\* a non-nil pointer and the field is exported; Set panics otherwise.
PresentKey(reg, field, k, raw, vals, nonNil) ==
    IF field.Type \notin DOMAIN reg.loaderFuncs
    THEN Step(vals, TRUE, Outcome("error", <<"no loader function found for type", field.Type>>))
    ELSE LET r == wrapped(reg.loaderFuncs[field.Type], raw)
         IN  IF r.status = "panic" THEN Step(vals, TRUE, Outcome("panic", r.err))
             ELSE IF r.status = "error"
             THEN Step(vals, TRUE, Outcome("error", <<"cannot populate", field.Name>> \o r.err))
             ELSE IF ~nonNil
             THEN Step(vals, TRUE, Outcome("panic", <<"call of reflect.Value.Field on zero Value">>))
             ELSE IF ~IsExported(field.Name)
             THEN Step(vals, TRUE, Outcome("panic", <<"reflect.Value.Set using value obtained using unexported field">>))
             ELSE Step([vals EXCEPT ![k] = r.val], FALSE, OK)

\* The loop body that looks the loader func up before it looks at the map.
LoadFieldLoaderFirst(reg, T, p, k, vals, nonNil) ==
    LET field == T[k]
        a == argLookup(field)
    IN  IF ~a.ok THEN Step(vals, FALSE, OK)
        ELSE IF field.Type \notin DOMAIN reg.loaderFuncs
        THEN Step(vals, TRUE, Outcome("error", <<"no loader function found for type", field.Type>>))
        ELSE IF a.v \notin DOMAIN p THEN MissingKey(field, a.v, vals)
        ELSE PresentKey(reg, field, k, p[a.v], vals, nonNil)

\* Lines 176-210: the loop body for field k.
LoadField(reg, T, p, k, vals, nonNil) ==
    LET field == T[k]
        a == argLookup(field)
    IN  IF ~a.ok THEN Step(vals, FALSE, OK)
        ELSE IF a.v \notin DOMAIN p THEN MissingKey(field, a.v, vals)
        ELSE PresentKey(reg, field, k, p[a.v], vals, nonNil)

\* The loop that goes on after a failing field and reports the first error.
RECURSIVE LoadLoopKeepGoing(_, _, _, _, _, _)
LoadLoopKeepGoing(reg, T, p, k, vals, nonNil) ==
    IF k > Len(T) THEN Step(vals, TRUE, OK)
    ELSE LET s == LoadField(reg, T, p, k, vals, nonNil)
         IN  IF s.ret
             THEN Step(LoadLoopKeepGoing(reg, T, p, k + 1, s.vals, nonNil).vals, TRUE, s.out)
             ELSE LoadLoopKeepGoing(reg, T, p, k + 1, s.vals, nonNil)

\* Lines 175-212: the loop from field k on; the first field that returns
\* ends it.
RECURSIVE LoadLoop(_, _, _, _, _, _)
LoadLoop(reg, T, p, k, vals, nonNil) ==
    IF k > Len(T) THEN Step(vals, TRUE, OK)
    ELSE LET s == LoadField(reg, T, p, k, vals, nonNil)
         IN  IF s.ret THEN s ELSE LoadLoop(reg, T, p, k + 1, s.vals, nonNil)

\* Lines 164-173: what LoadArgs does with c before the loop.
CheckDest(kind) ==
    IF kind = "nil" THEN Outcome("panic", <<"nil pointer dereference">>)
    ELSE IF kind \in {"struct", "int"} THEN Outcome("error", <<kind, "is not a pointer">>)
    ELSE IF kind = "ptrInt" THEN Outcome("error", <<kind, "is not a pointer to a struct">>)
    ELSE OK

\* LoadArgs that restores the struct when it returns an error.
LoadArgsRollback(reg, p, kind, T, vals) ==
    LET pre == CheckDest(kind)
        s == LoadLoop(reg, T, p, 1, vals, kind = "ptrStruct")
    IN  IF pre.status # "ok" THEN Step(vals, TRUE, pre)
        ELSE IF s.out.status # "ok" THEN Step(vals, TRUE, s.out)
        ELSE s

\* ArgLoader.LoadArgs(p, c), c of the given kind pointing at a struct of type
\* T holding vals: the struct afterwards and the outcome.
LoadArgs(reg, p, kind, T, vals) ==
    LET pre == CheckDest(kind)
    IN  IF pre.status # "ok" THEN Step(vals, TRUE, pre)
        ELSE LoadLoop(reg, T, p, 1, vals, kind = "ptrStruct")

\* ------------------------------------------------------------------------
\* The program, one call at a time
\* ------------------------------------------------------------------------
reg == Registry(loaderFuncs, gqlTypes)

Last(op, in, out, schema) == [op |-> op, in |-> in, out |-> out, schema |-> schema]

Init ==
    /\ \E r \in {Empty, New.reg} :
          /\ loaderFuncs = r.loaderFuncs
          /\ gqlTypes = r.gqlTypes
    /\ structType \in StructTypes
    /\ args \in ArgMaps
    /\ dest = ZeroStruct(structType)
    /\ last = Last("none", <<>>, OK, EmptyMap)
    /\ call = <<>>
    /\ records = <<>>
    /\ concurrent = {}

DoRegister ==
    \E in \in RegisterInputs :
        LET r == Register(reg, in[1], in[2])
        IN  /\ loaderFuncs' = r.reg.loaderFuncs
            /\ gqlTypes' = r.reg.gqlTypes
            /\ last' = Last("Register", <<in[1].name, in[2]>>, r.out, EmptyMap)
            /\ UNCHANGED <<structType, args, dest>>
            /\ UNCHANGED concVars

DoSafeArgsConfig ==
    \E kind \in ConfigInputs :
        LET r == SafeArgsConfig(reg, kind, structType)
        IN  /\ last' = Last("SafeArgsConfig", <<kind>>, r.out, r.schema)
            /\ UNCHANGED <<loaderFuncs, gqlTypes, structType, args, dest>>
            /\ UNCHANGED concVars

DoLoadArgs ==
    \E kind \in LoadInputs :
        LET r == LoadArgs(reg, args, kind, structType, dest)
        IN  /\ dest' = r.vals
            /\ last' = Last("LoadArgs", <<kind>>, r.out, EmptyMap)
            /\ UNCHANGED <<loaderFuncs, gqlTypes, structType, args>>
            /\ UNCHANGED concVars

Next == DoRegister \/ DoSafeArgsConfig \/ DoLoadArgs

Spec == Init /\ [][Next]_vars

\* ------------------------------------------------------------------------
\* The program with callers that interleave
\* ------------------------------------------------------------------------
\* Callers run LoadArgs, SafeArgsConfig and Register on the one ArgLoader with
\* nothing ordering them: a step is one pass of a loop body, or one read or
\* write of a registry map by Register.  Each caller makes one call.
Procs == 1..MaxProcs

ConcStructTypes ==
    {T \in StructTypes : Len(T) >= 1 /\ \A k \in 1..Len(T) : T[k] \in {helloArgs[1], helloArgs[2]}}

ConcArgMaps == {m \in ArgMaps : \A key \in DOMAIN m : m[key] = Val("string", "Joe")}

ConcRegisterInputs == { <<LoadString, "String">>, <<PanicString, "ID">> }

NoAccess == [r |-> {}, w |-> {}]

Idle == [op |-> "none", pc |-> "idle", k |-> 0, p |-> EmptyMap, f |-> <<>>, c |-> 0,
         schema |-> EmptyMap, out |-> OK, reg0 |-> Empty, vals0 |-> <<>>, acc |-> NoAccess]

\* Every caller loads into the struct of caller 1.
destShared(self) == 1

\* The struct a caller hands to LoadArgs: its own (var args helloArgs in the
\* resolver).
destOf(self) == self

Running == {q \in Procs : call[q].pc = "run"}

ConcInit ==
    /\ \E r \in {Empty, New.reg} :
          /\ loaderFuncs = r.loaderFuncs
          /\ gqlTypes = r.gqlTypes
    /\ structType \in ConcStructTypes
    /\ args = EmptyMap
    /\ dest = <<>>
    /\ last = Last("none", <<>>, OK, EmptyMap)
    /\ call = [q \in Procs |-> Idle]
    /\ records = [q \in Procs |-> ZeroStruct(structType)]
    /\ concurrent = {}

Begin(self, op, p, f, c) ==
    /\ call[self].pc = "idle"
    /\ call' = [call EXCEPT ![self] =
                  [Idle EXCEPT !.op = op, !.pc = "run", !.k = 1, !.p = p, !.f = f, !.c = c,
                               !.reg0 = reg,
                               !.vals0 = IF c = 0 THEN <<>> ELSE records[c]]]
    /\ concurrent' = concurrent \cup {{self, q} : q \in Running}
    /\ UNCHANGED <<records, seqVars>>

BeginLoadArgs(self) == \E p \in ConcArgMaps : Begin(self, "LoadArgs", p, <<>>, destOf(self))

BeginSafeArgsConfig(self) == Begin(self, "SafeArgsConfig", EmptyMap, <<>>, 0)

BeginRegister(self) == \E in \in ConcRegisterInputs : Begin(self, "Register", EmptyMap, in, 0)

Read(acc, m) == [acc EXCEPT !.r = @ \cup {m}]
Write(acc, m) == [acc EXCEPT !.w = @ \cup {m}]

\* One pass of the loop of LoadArgs (lines 175-211), and the return that
\* ends the call.
LoadArgsStep(self) ==
    LET cl == call[self]
        k == cl.k
        s == LoadField(reg, structType, cl.p, k, records[cl.c], TRUE)
        a == argLookup(structType[k])
        looksUp == a.ok /\ a.v \in DOMAIN cl.p
        acc == IF looksUp THEN Read(cl.acc, "loaderFuncs") ELSE cl.acc
    IN  /\ cl.pc = "run" /\ cl.op = "LoadArgs"
        /\ records' = [records EXCEPT ![cl.c] = s.vals]
        /\ call' = [call EXCEPT ![self] =
                      IF s.ret \/ k = Len(structType)
                      THEN [cl EXCEPT !.pc = "done", !.out = s.out, !.acc = acc]
                      ELSE [cl EXCEPT !.k = k + 1, !.acc = acc]]
        /\ UNCHANGED <<concurrent, seqVars>>

\* One pass of the loop of SafeArgsConfig (lines 90-101), and the return.
SafeArgsConfigStep(self) ==
    LET cl == call[self]
        k == cl.k
        schema == ConfigField(reg, structType, k, cl.schema)
        acc == IF argLookup(structType[k]).ok THEN Read(cl.acc, "gqlTypes") ELSE cl.acc
    IN  /\ cl.pc = "run" /\ cl.op = "SafeArgsConfig"
        /\ call' = [call EXCEPT ![self] =
                      IF k = Len(structType)
                      THEN [cl EXCEPT !.pc = "done", !.schema = schema, !.acc = acc]
                      ELSE [cl EXCEPT !.k = k + 1, !.schema = schema, !.acc = acc]]
        /\ UNCHANGED <<records, concurrent, seqVars>>

\* Register up to line 139: the signature checks and the alreadyRegistered
\* read of loaderFuncs.
RegisterCheck(self) ==
    LET cl == call[self]
        r == Register(reg, cl.f[1], cl.f[2])
    IN  /\ cl.pc = "run" /\ cl.op = "Register" /\ cl.k = 1
        /\ call' = [call EXCEPT ![self] =
                      IF r.out.status # "ok"
                      THEN [cl EXCEPT !.pc = "done", !.out = r.out,
                                      !.acc = Read(cl.acc, "loaderFuncs")]
                      ELSE [cl EXCEPT !.k = 2, !.acc = Read(cl.acc, "loaderFuncs")]]
        /\ UNCHANGED <<records, concurrent, seqVars>>

\* Line 156: e.loaderFuncs[t.Out(0)] = wrapped
RegisterStoreFunc(self) ==
    LET cl == call[self]
    IN  /\ cl.pc = "run" /\ cl.op = "Register" /\ cl.k = 2
        /\ loaderFuncs' = Put(loaderFuncs, cl.f[1].out0, cl.f[1])
        /\ call' = [call EXCEPT ![self] = [cl EXCEPT !.k = 3, !.acc = Write(cl.acc, "loaderFuncs")]]
        /\ UNCHANGED <<gqlTypes, structType, args, dest, last, records, concurrent>>

\* Lines 157-158: e.gqlTypes[t.Out(0)] = gqlType; return nil
RegisterStoreType(self) ==
    LET cl == call[self]
    IN  /\ cl.pc = "run" /\ cl.op = "Register" /\ cl.k = 3
        /\ gqlTypes' = Put(gqlTypes, cl.f[1].out0, cl.f[2])
        /\ call' = [call EXCEPT ![self] =
                      [cl EXCEPT !.pc = "done", !.out = OK, !.acc = Write(cl.acc, "gqlTypes")]]
        /\ UNCHANGED <<loaderFuncs, structType, args, dest, last, records, concurrent>>

ConcNext ==
    \E self \in Procs :
        \/ BeginLoadArgs(self)
        \/ BeginSafeArgsConfig(self)
        \/ BeginRegister(self)
        \/ LoadArgsStep(self)
        \/ SafeArgsConfigStep(self)
        \/ RegisterCheck(self)
        \/ RegisterStoreFunc(self)
        \/ RegisterStoreType(self)

SpecConc == ConcInit /\ [][ConcNext]_vars

\* ------------------------------------------------------------------------
\* What the claims speak of, stated on the tags and the Args map alone
\* ------------------------------------------------------------------------
TrueLiterals == {"1", "t", "T", "TRUE", "true", "True"}
FalseLiterals == {"0", "f", "F", "FALSE", "false", "False"}

Annotated(T, k) == T[k].arg # NoTag
Present(T, p, k) == T[k].arg \in DOMAIN p
RequiredField(T, k) == T[k].required \in TrueLiterals
OptionalField(T, k) == T[k].required = NoTag \/ T[k].required \in FalseLiterals
Unparseable(T, k) == ~RequiredField(T, k) /\ ~OptionalField(T, k)

\* The loader func registered for field k accepts the raw value under its key.
Converts(r, T, p, k) ==
    /\ T[k].Type \in DOMAIN r.loaderFuncs
    /\ Call(r.loaderFuncs[T[k].Type], p[T[k].arg]).status = "ok"

\* Field k cannot be populated from p.
FieldFails(r, T, p, k) ==
    /\ Annotated(T, k)
    /\ IF Present(T, p, k)
       THEN ~Converts(r, T, p, k) \/ ~IsExported(T[k].Name)
       ELSE ~OptionalField(T, k)

\* The first field in declaration order that cannot be populated, 0 if none.
FirstFailing(r, T, p) ==
    LET F == {k \in 1..Len(T) : FieldFails(r, T, p, k)}
    IN  IF F = {} THEN 0 ELSE CHOOSE k \in F : \A j \in F : k <= j

\* The step is a LoadArgs call on a pointer to the program's struct.
LoadStep == last'.op = "LoadArgs" /\ last'.in = <<"ptrStruct">>
Loaded == last.op = "LoadArgs" /\ last.in = <<"ptrStruct">>

MissingRequiredFirst(r, T, p) ==
    LET k == FirstFailing(r, T, p)
    IN  k # 0 /\ ~Present(T, p, k) /\ RequiredField(T, k)

\* C1 as claimed: when LoadArgs fails because the key of a required field is
\* not in the map, it returns "<argument> is required" and every field of the
\* struct holds the value it had before the call.
C1_RequiredMissingMutatesNothing ==
    [][ (LoadStep /\ MissingRequiredFirst(reg, structType, args)) =>
          /\ last'.out = Outcome("error",
                <<structType[FirstFailing(reg, structType, args)].arg, "is required">>)
          /\ dest' = dest ]_vars

\* C1 amended: when LoadArgs fails because the key of a required field is not
\* in the map, it returns "<argument> is required" and that field and every
\* field declared after it hold the values they had before the call.
C1_RequiredMissingLeavesRest ==
    [][ (LoadStep /\ MissingRequiredFirst(reg, structType, args)) =>
          LET k == FirstFailing(reg, structType, args)
          IN  /\ last'.out = Outcome("error", <<structType[k].arg, "is required">>)
              /\ \A j \in k..Len(structType) : dest'[j] = dest[j] ]_vars

\* C1 witness: a call returned "name is required" after it had written an
\* earlier field.
C1_Witness ==
    /\ Loaded
    /\ last.out = Outcome("error", <<"name", "is required">>)
    /\ MissingRequiredFirst(reg, structType, args)
    /\ \E j \in 1..(FirstFailing(reg, structType, args) - 1) :
          dest[j] # Zero(structType[j].Type)

ValidSignature(f) == f.kind = "func" /\ f.numIn = 1 /\ f.numOut = 2 /\ f.out1IsError

\* C2: the two maps have the same keys; no Register call changes the loader
\* func or the graphql type stored for a type; and a Register call whose
\* func returns a type that already has a loader func returns the "already
\* registered" error and leaves both maps as they were.
C2_FirstRegistrationStays ==
    [][ /\ DOMAIN loaderFuncs' = DOMAIN gqlTypes'
        /\ \A t \in DOMAIN loaderFuncs :
              /\ t \in DOMAIN loaderFuncs'
              /\ loaderFuncs'[t] = loaderFuncs[t]
              /\ gqlTypes'[t] = gqlTypes[t]
        /\ last'.op = "Register" =>
              \A in \in RegisterInputs :
                 ( /\ last'.in = <<in[1].name, in[2]>>
                   /\ ValidSignature(in[1])
                   /\ in[1].out0 \in DOMAIN loaderFuncs ) =>
                     /\ last'.out.status = "error"
                     /\ last'.out.err[1] = "a loader func has already been registered for the"
                     /\ loaderFuncs' = loaderFuncs
                     /\ gqlTypes' = gqlTypes ]_vars

\* C2 witness: PanicString was refused for string, which LoadString holds.
C2_Witness ==
    /\ last.op = "Register"
    /\ last.in = <<"PanicString", "ID">>
    /\ last.out.status = "error"
    /\ last.out.err[1] = "a loader func has already been registered for the"
    /\ loaderFuncs["string"] = LoadString
    /\ gqlTypes["string"] = "String"

\* The loader func of the first failing field panics on the raw value.
ConverterPanics(r, T, p) ==
    LET k == FirstFailing(r, T, p)
    IN  /\ k # 0
        /\ Present(T, p, k)
        /\ T[k].Type \in DOMAIN r.loaderFuncs
        /\ Call(r.loaderFuncs[T[k].Type], p[T[k].arg]).status = "panic"

\* C3: no wrapped loader func panics, whatever the raw value (nil included);
\* and when the loader func of a field panics, LoadArgs returns the error
\* "cannot populate <field>: <func> panicked: <fault>".
C3_PanicBecomesError ==
    /\ \A t \in DOMAIN loaderFuncs : \A raw \in RawValues :
          /\ wrapped(loaderFuncs[t], raw).status \in {"ok", "error"}
          /\ Call(loaderFuncs[t], raw).status = "panic" =>
                wrapped(loaderFuncs[t], raw).status = "error"
    /\ (Loaded /\ ConverterPanics(reg, structType, args)) =>
          LET k == FirstFailing(reg, structType, args)
              f == loaderFuncs[structType[k].Type]
          IN  last.out = Outcome("error",
                  <<"cannot populate", structType[k].Name, f.name, "panicked:">>
                     \o Call(f, args[structType[k].arg]).err)

\* C3 witness: LoadArgs returned the error made of PanicString's panic.
C3_Witness ==
    /\ Loaded
    /\ ConverterPanics(reg, structType, args)
    /\ last.out.status = "error"
    /\ Len(last.out.err) = 5
    /\ last.out.err[3] = "PanicString"
    /\ last.out.err[5] = "boom"

\* The error LoadArgs returns for failing field k.
IsErrorOf(r, T, p, k, err) ==
    IF ~Present(T, p, k)
    THEN IF RequiredField(T, k) THEN err = <<T[k].arg, "is required">>
         ELSE err = <<T[k].required, "is not a valid 'required' tag value">>
    ELSE IF T[k].Type \notin DOMAIN r.loaderFuncs
    THEN err = <<"no loader function found for type", T[k].Type>>
    ELSE Len(err) > 2 /\ err[1] = "cannot populate" /\ err[2] = T[k].Name

\* C4: when LoadArgs returns an error, the error is that of the first field
\* in declaration order that cannot be populated; every annotated field
\* before it whose key is in the map holds its converted value; that field
\* and every later one hold the values they had before the call.
C4_StopsAtFirstFailure ==
    [][ (LoadStep /\ last'.out.status = "error") =>
          LET k == FirstFailing(reg, structType, args)
          IN  /\ k # 0
              /\ IsErrorOf(reg, structType, args, k, last'.out.err)
              /\ \A j \in 1..(k - 1) :
                    (Annotated(structType, j) /\ Present(structType, args, j)) =>
                       dest'[j] = Call(loaderFuncs[structType[j].Type],
                                       args[structType[j].arg]).val
              /\ \A j \in k..Len(structType) : dest'[j] = dest[j] ]_vars

\* C4 witness: a conversion failed on the second field after the first had
\* been written.
C4_Witness ==
    /\ Loaded
    /\ last.out.status = "error"
    /\ last.out.err[1] = "cannot populate"
    /\ FirstFailing(reg, structType, args) = 2
    /\ dest[1] = args[structType[1].arg]
    /\ dest[1] # Zero(structType[1].Type)

\* C5: a struct with an annotated field whose required tag does not parse
\* makes LoadArgs fail, whatever the map holds.
C5_UnparseableRequiredFails ==
    (Loaded /\ \E k \in 1..Len(structType) :
                  Annotated(structType, k) /\ Unparseable(structType, k))
       => last.out.status # "ok"

\* C6: SafeArgsConfig returns a schema and no error for a struct and for a
\* pointer to one, and the "is not a struct" error, never a panic, for
\* anything else (nil included).
C6_NotAStructIsAnError ==
    last.op = "SafeArgsConfig" =>
       IF last.in[1] \in {"struct", "ptrStruct"}
       THEN last.out = OK
       ELSE last.out.status = "error" /\ last.out.err[2] = "is not a struct"

\* The indices of T's annotated fields, in declaration order, and the struct
\* type and values with the other fields left out.
RECURSIVE AnnotatedIndices(_, _)
AnnotatedIndices(T, k) ==
    IF k > Len(T) THEN <<>>
    ELSE IF Annotated(T, k) THEN <<k>> \o AnnotatedIndices(T, k + 1)
    ELSE AnnotatedIndices(T, k + 1)

Strip(T, s) == LET ix == AnnotatedIndices(T, 1) IN [n \in 1..Len(ix) |-> s[ix[n]]]

\* C7: a field without the arg tag is neither read nor written.  LoadArgs
\* leaves it as it was, on success and on failure, and returns what it
\* returns for the struct without that field; SafeArgsConfig returns the
\* schema of the struct without that field.
C7_UnannotatedUntouched ==
    [][ /\ last'.op = "LoadArgs" =>
              /\ \A k \in 1..Len(structType) :
                    ~Annotated(structType, k) => dest'[k] = dest[k]
              /\ LET r == LoadArgs(reg, args, last'.in[1],
                                   Strip(structType, structType), Strip(structType, dest))
                 IN  /\ last'.out = r.out
                     /\ Strip(structType, dest') = r.vals
        /\ last'.op = "SafeArgsConfig" =>
              /\ last'.schema =
                    SafeArgsConfig(reg, last'.in[1], Strip(structType, structType)).schema
              /\ \A key \in DOMAIN last'.schema :
                    \E k \in 1..Len(structType) : structType[k].arg = key ]_vars

\* C7 witness: LoadArgs wrote a field of a struct that also has an untagged
\* field whose name is a key of the map, and left that field alone.
C7_Witness ==
    /\ Loaded
    /\ last.out = OK
    /\ \E k, j \in 1..Len(structType) :
          /\ ~Annotated(structType, k)
          /\ structType[k].Name \in DOMAIN args
          /\ dest[k] = Zero(structType[k].Type)
          /\ Annotated(structType, j)
          /\ dest[j] # Zero(structType[j].Type)

OptionalMissing(T, p, k) == Annotated(T, k) /\ OptionalField(T, k) /\ ~Present(T, p, k)

LastNamed(T, key) ==
    CHOOSE k \in 1..Len(T) :
       /\ T[k].arg = key
       /\ \A j \in 1..Len(T) : T[j].arg = key => j <= k

\* C9: for a struct or a pointer to one SafeArgsConfig succeeds; the schema's
\* keys are the argument names of the annotated fields; each entry holds the
\* graphql type registered for its field's Go type (nil when none is) and the
\* field's desc tag (empty when there is none), the field being the last one
\* declared with that argument name; the registry is left as it was.
C9_SchemaOfAnnotatedFields ==
    [][ (last'.op = "SafeArgsConfig" /\ last'.in[1] \in {"struct", "ptrStruct"}) =>
          /\ last'.out = OK
          /\ DOMAIN last'.schema =
                {structType[k].arg : k \in {j \in 1..Len(structType) : Annotated(structType, j)}}
          /\ \A key \in DOMAIN last'.schema :
                LET f == structType[LastNamed(structType, key)]
                IN  /\ last'.schema[key].Type =
                          (IF f.Type \in DOMAIN gqlTypes THEN gqlTypes[f.Type] ELSE NoGqlType)
                    /\ last'.schema[key].Description =
                          (IF f.desc = NoTag THEN "" ELSE f.desc)
          /\ loaderFuncs' = loaderFuncs
          /\ gqlTypes' = gqlTypes ]_vars

\* C9 witness: the schema of helloArgs under the default loaders.
C9_Witness ==
    /\ last.op = "SafeArgsConfig"
    /\ last.out = OK
    /\ structType = helloArgs
    /\ DOMAIN last.schema = {"name", "greeting"}
    /\ last.schema["name"] = ArgumentConfig("String", "Your name")
    /\ last.schema["greeting"] = ArgumentConfig("String", "How to say hello")

\* Two calls that overlapped, one writing a registry map the other reads or
\* writes, with nothing ordering the two accesses.
DataRace ==
    \E a, b \in Procs :
       /\ a # b
       /\ {a, b} \in concurrent
       /\ call[a].acc.w \cap (call[b].acc.r \cup call[b].acc.w) # {}

RegisterOverlapped(a) ==
    \E b \in Procs : b # a /\ {a, b} \in concurrent /\ call[b].op = "Register"

\* C10: a SafeArgsConfig or LoadArgs call that no Register call overlaps,
\* however it interleaves with other such calls loading into other structs,
\* writes no registry map, sees the registry it started with throughout, and
\* ends with the outcome, the schema and the struct contents of the same call
\* run alone on that registry; and every data race on the registry maps has a
\* Register call as one of its two parties.
C10_ReadersInterleaveSafely ==
    /\ \A a \in Procs :
          (call[a].op \in {"LoadArgs", "SafeArgsConfig"} /\ ~RegisterOverlapped(a)) =>
             /\ call[a].acc.w = {}
             /\ call[a].pc = "run" => reg = call[a].reg0
             /\ (call[a].pc = "done" /\ call[a].op = "LoadArgs") =>
                   LET r == LoadArgs(call[a].reg0, call[a].p, "ptrStruct", structType,
                                     call[a].vals0)
                   IN  call[a].out = r.out /\ records[a] = r.vals
             /\ (call[a].pc = "done" /\ call[a].op = "SafeArgsConfig") =>
                   call[a].schema = SafeArgsConfig(call[a].reg0, "ptrStruct", structType).schema
    /\ DataRace =>
          \E a, b \in Procs :
             /\ a # b
             /\ {a, b} \in concurrent
             /\ call[a].op = "Register"
             /\ call[a].acc.w \cap (call[b].acc.r \cup call[b].acc.w) # {}

\* C10 witness: two LoadArgs calls overlapped, each wrote a field of its own
\* struct, and both are done.
C10_Witness ==
    \E a, b \in Procs :
       /\ a # b
       /\ {a, b} \in concurrent
       /\ call[a].op = "LoadArgs" /\ call[a].pc = "done" /\ call[a].out = OK
       /\ call[b].op = "LoadArgs" /\ call[b].pc = "done" /\ call[b].out = OK
       /\ call[a].p # call[b].p
       /\ records[a] # ZeroStruct(structType)
       /\ records[b] # ZeroStruct(structType)
       /\ records[a] # records[b]

\* The race of C10: a Register call wrote loaderFuncs while an overlapping
\* LoadArgs call read it.
C10_RaceReached ==
    \E a, b \in Procs :
       /\ {a, b} \in concurrent
       /\ call[a].op = "Register" /\ "loaderFuncs" \in call[a].acc.w
       /\ call[b].op = "LoadArgs" /\ "loaderFuncs" \in call[b].acc.r

====
